---- MODULE Spec2Model ----
(***************************************************************************)
(* A model of trim-streams: the stream-selection policy of                 *)
(* VideoProcessor.get_stream_mappings, the VideoProcessor pipeline         *)
(* (probe_file, get_stream_mappings, verify_output, process), the          *)
(* pre-flight check validate_dependencies and the batch driver main().     *)
(*                                                                         *)
(* Three specifications share the definitions:                             *)
(*   SelectSpec  get_stream_mappings on every bounded probe result/policy  *)
(*   Spec        main(): one run of the batch driver, step by step         *)
(*   ApiSpec     arbitrary sequences of calls on one VideoProcessor        *)
(***************************************************************************)
EXTENDS Integers, Sequences, FiniteSets

VARIABLES
    stack,            \* control: the labels of the active frames, innermost first
    result,           \* how the last callee ended: "none", "ok" or the exception raised
    status,           \* VideoProcessor.status
    probe_data,       \* VideoProcessor.probe_data (is_none = TRUE models None)
    config,           \* the ProcessingConfig in use
    mappings,         \* the list returned by the last get_stream_mappings
    file_path,        \* the argument of the running probe_file call
    output_file,      \* the output path handed to process / verify_output
    env,              \* what the run finds: input path kind, writability, tools on PATH
    tree,             \* the media tree under the input path (without processed/)
    outputs,          \* the content of every path in the output directory
    files_to_process, \* main's list of discovered files
    idx,              \* main's loop position in files_to_process
    success_count,    \* main's success counter
    calls,            \* every subprocess invocation made so far, in order
    attempted,        \* the loop's iterations so far: the position of each file reached
    report,           \* per discovered file: what the driver saw and logged
    api_calls         \* how many operations a direct caller has invoked

vars == <<stack, result, status, probe_data, config, mappings, file_path, output_file,
          env, tree, outputs, files_to_process, idx, success_count, calls, attempted,
          report, api_calls>>

(***************************************************************************)
(* Bounds                                                                  *)
(***************************************************************************)
MaxStreams == 3

MaxFiles == 2

MaxCalls == 3

(***************************************************************************)
(* Probe results and policies                                              *)
(***************************************************************************)
CodecTypes == {"video", "audio", "subtitle", "data"}

\* Language tags a probe may report; "ENG" differs from "eng" only in case.
Languages == {"und", "eng", "ENG"}

\* A stream's tags dictionary: no tags at all, or a language entry.
TagDicts == {{}} \cup {{<<"language", l>>} : l \in Languages}

\* dict.get(key, default)
DictGet(d, key, default) ==
    IF \E p \in d : p[1] = key THEN (CHOOSE p \in d : p[1] = key)[2] ELSE default

\* x in list
InList(x, list) == \E k \in DOMAIN list : list[k] = x

\* ffprobe -show_streams reports every stream of the file, the stream at
\* position k carrying index k - 1.  StreamShapes(n) are the kinds and tags
\* of n streams, StreamsOf(f) the list ffprobe prints for them.
StreamShapes(n) == [1..n -> [c : CodecTypes, t : TagDicts]]

StreamsOf(f) ==
    [k \in DOMAIN f |-> [index |-> k - 1, codec_type |-> f[k].c, tags |-> f[k].t]]

\* The language lists of a ProcessingConfig.
AudioLangLists == {<<"eng">>, <<"ENG", "und">>}

SubtitleLangLists == {<<"eng">>, <<"und">>}

Policies ==
    [audio_langs : AudioLangLists, subtitle_langs : SubtitleLangLists,
     copy_streams : {TRUE}, verify_output : {TRUE}]

\* f"0:{index}"
StreamSpecifiers == <<"0:0", "0:1", "0:2", "0:3", "0:4", "0:5">>

FormatSpecifier(index) == StreamSpecifiers[index + 1]

None == [is_none |-> TRUE, streams |-> <<>>]

Some(ss) == [is_none |-> FALSE, streams |-> ss]

(***************************************************************************)
(* VideoProcessor.get_stream_mappings: the loop and the two checks          *)
(***************************************************************************)
StreamLanguage(stream) == DictGet(stream.tags, "language", "und")

\* Variant of line 142 without the "not video_mapped" test.
TakesVideoAlways(stream, video_mapped) == stream.codec_type = "video"

\* Line 142.
TakesVideo(stream, video_mapped) == stream.codec_type = "video" /\ ~video_mapped

\* Variant of line 146 that compares language tags without regard to case.
TakesAudioAnyCase(stream, cfg) ==
    /\ stream.codec_type = "audio"
    /\ \/ InList(StreamLanguage(stream), cfg.audio_langs)
       \/ StreamLanguage(stream) = "ENG" /\ InList("eng", cfg.audio_langs)
       \/ StreamLanguage(stream) = "eng" /\ InList("ENG", cfg.audio_langs)

\* Line 146.
TakesAudio(stream, cfg) ==
    stream.codec_type = "audio" /\ InList(StreamLanguage(stream), cfg.audio_langs)

\* Line 149.
TakesSubtitle(stream, cfg) ==
    stream.codec_type = "subtitle" /\ InList(StreamLanguage(stream), cfg.subtitle_langs)

\* One pass of the for loop over probe_data["streams"], from position k.
RECURSIVE MapLoop(_, _, _, _, _)
MapLoop(streams, cfg, k, acc, video_mapped) ==
    IF k > Len(streams) THEN [mappings |-> acc, video_mapped |-> video_mapped]
    ELSE LET stream == streams[k]
             arg == <<"-map", FormatSpecifier(stream.index)>>
         IN  IF TakesVideo(stream, video_mapped)
                 THEN MapLoop(streams, cfg, k + 1, acc \o arg, TRUE)
             ELSE IF TakesAudio(stream, cfg)
                 THEN MapLoop(streams, cfg, k + 1, acc \o arg, video_mapped)
             ELSE IF TakesSubtitle(stream, cfg)
                 THEN MapLoop(streams, cfg, k + 1, acc \o arg, video_mapped)
             ELSE MapLoop(streams, cfg, k + 1, acc, video_mapped)

\* Variant of lines 153-156 with the two checks in the other order.
SelectionErrorEmptyFirst(loop) ==
    IF loop.mappings = <<>> THEN "no_matching_streams"
    ELSE IF ~loop.video_mapped THEN "no_video_stream"
    ELSE "none"

\* Lines 153-156: which FFProbeError, if any, is raised after the loop.
SelectionError(loop) ==
    IF ~loop.video_mapped THEN "no_video_stream"
    ELSE IF loop.mappings = <<>> THEN "no_matching_streams"
    ELSE "none"

GetStreamMappings(streams, cfg) ==
    LET loop == MapLoop(streams, cfg, 1, <<>>, FALSE)
        error == SelectionError(loop)
    IN  [error |-> error,
         mappings |-> IF error = "none" THEN loop.mappings ELSE <<>>]

\* The stream indices an ffmpeg argument list maps: each "-map" and the
\* specifier after it.
MappedIndices(m) ==
    {i \in 0..(Len(StreamSpecifiers) - 1) :
        \E k \in 1..(Len(m) - 1) : m[k] = "-map" /\ m[k + 1] = FormatSpecifier(i)}

(***************************************************************************)
(* The VideoProcessor, one step per statement group.  The head of stack is *)
(* the label about to run; a call puts the callee's entry label above the  *)
(* caller's continuation, and a return or raise removes the callee's label *)
(* and leaves the outcome in result.                                       *)
(***************************************************************************)
At(label) == stack # <<>> /\ Head(stack) = label

Goto(label) == stack' = <<label>> \o Tail(stack)

Call(entry, continuation) == stack' = <<entry, continuation>> \o Tail(stack)

Return(outcome) == stack' = Tail(stack) /\ result' = outcome

FFProbeErrors ==
    {"FFProbeError:ffprobe_failed", "FFProbeError:parse_failed",
     "FFProbeError:no_video_stream", "FFProbeError:no_matching_streams"}

FFMPEGErrors ==
    {"FFMPEGError:ffmpeg_failed", "FFMPEGError:failed_to_create",
     "FFMPEGError:empty_output", "FFMPEGError:verification_failed"}

\* The probe results a media file of the batch may give.
VideoAndAudio ==
    <<[index |-> 0, codec_type |-> "video", tags |-> {}],
      [index |-> 1, codec_type |-> "audio", tags |-> {<<"language", "eng">>}]>>

AudioOnly == <<[index |-> 0, codec_type |-> "audio", tags |-> {<<"language", "eng">>}]>>

SampleProbes == {VideoAndAudio, AudioOnly}

\* What a path of the output directory may hold.
Contents == {"absent", "old", "good", "empty", "corrupt"}

\* ffprobe on a target: the streams it prints, or the way it fails.
ProbeOutcomes(target, content) ==
    IF target = "input"
        THEN [kind : {"ok"}, streams : SampleProbes]
             \cup [kind : {"CalledProcessError", "JSONDecodeError"}, streams : {<<>>}]
    ELSE IF content \in {"good", "old"}
        THEN [kind : {"ok"}, streams : {VideoAndAudio}]
    ELSE [kind : {"CalledProcessError"}, streams : {<<>>}]

\* ffmpeg on an output path: its exit code and what the path holds afterwards.
RemuxOutcomes(content) ==
    [exit : {0}, content : {"good", "empty", "corrupt"}]
    \cup [exit : {0}, content : {content} \cap {"absent"}]
    \cup [exit : {1}, content : {content, "corrupt"}]

\* probe_file, lines 104-109: the cache test, then status and the command.
ProbeTarget(fp) == IF fp = "None" THEN "input" ELSE fp

ProbeFileEnter ==
    /\ At("probe_104")
    /\ IF file_path = "None" /\ ~probe_data.is_none
           THEN /\ Return("ok")
                /\ UNCHANGED <<status, calls>>
           ELSE /\ status' = "analyzing"
                /\ calls' = Append(calls, <<"ffprobe", idx, ProbeTarget(file_path)>>)
                /\ Goto("probe_112")
                /\ UNCHANGED result
    /\ UNCHANGED <<probe_data, config, mappings, file_path, output_file, env, tree,
                   outputs, files_to_process, idx, success_count, attempted, report,
                   api_calls>>

\* probe_file, lines 111-126: the subprocess ends.
ProbeFileExit ==
    /\ At("probe_112")
    /\ IF "ffprobe" \notin env.tools
           THEN /\ Return("FileNotFoundError")
                /\ UNCHANGED <<status, probe_data>>
           ELSE \E o \in ProbeOutcomes(ProbeTarget(file_path), outputs[output_file]) :
                    IF o.kind = "ok"
                        THEN /\ probe_data' = IF file_path = "None" THEN Some(o.streams)
                                              ELSE probe_data
                             /\ Return("ok")
                             /\ UNCHANGED status
                        ELSE /\ status' = "failed"
                             /\ Return(IF o.kind = "CalledProcessError"
                                           THEN "FFProbeError:ffprobe_failed"
                                           ELSE "FFProbeError:parse_failed")
                             /\ UNCHANGED probe_data
    /\ UNCHANGED <<config, mappings, file_path, output_file, env, tree, outputs,
                   files_to_process, idx, success_count, calls, attempted, report,
                   api_calls>>

\* get_stream_mappings, lines 130-131: probe unless cached.
GetStreamMappingsEnter ==
    /\ At("gsm_130")
    /\ IF probe_data.is_none
           THEN /\ Call("probe_104", "gsm_131")
                /\ file_path' = "None"
           ELSE /\ Goto("gsm_133")
                /\ UNCHANGED file_path
    /\ UNCHANGED <<result, status, probe_data, config, mappings, output_file, env, tree,
                   outputs, files_to_process, idx, success_count, calls, attempted,
                   report, api_calls>>

\* get_stream_mappings, line 131: the probe returned, or raised through.
GetStreamMappingsProbed ==
    /\ At("gsm_131")
    /\ IF result = "ok"
           THEN Goto("gsm_133") /\ result' = "none"
           ELSE Return(result)
    /\ UNCHANGED <<status, probe_data, config, mappings, file_path, output_file, env,
                   tree, outputs, files_to_process, idx, success_count, calls, attempted,
                   report, api_calls>>

\* get_stream_mappings, lines 133-158: the loop, the checks, the return.
GetStreamMappingsSelect ==
    /\ At("gsm_133")
    /\ LET r == GetStreamMappings(probe_data.streams, config)
       IN  IF r.error = "none"
               THEN Return("ok") /\ mappings' = r.mappings
               ELSE Return("FFProbeError:" \o r.error) /\ UNCHANGED mappings
    /\ UNCHANGED <<status, probe_data, config, file_path, output_file, env, tree,
                   outputs, files_to_process, idx, success_count, calls, attempted,
                   report, api_calls>>

\* verify_output, lines 162-170: status, the two file checks, the probe call.
VerifyOutputEnter ==
    /\ At("verify_162")
    /\ status' = "verifying"
    /\ IF outputs[output_file] = "absent"
           THEN Return("FFMPEGError:failed_to_create") /\ UNCHANGED file_path
       ELSE IF outputs[output_file] = "empty"
           THEN Return("FFMPEGError:empty_output") /\ UNCHANGED file_path
       ELSE /\ Call("probe_104", "verify_170")
            /\ file_path' = "None"
            /\ UNCHANGED result
    /\ UNCHANGED <<probe_data, config, mappings, output_file, env, tree, outputs,
                   files_to_process, idx, success_count, calls, attempted, report,
                   api_calls>>

\* verify_output, lines 170-172: the probe returned or raised.
VerifyOutputProbed ==
    /\ At("verify_170")
    /\ IF result \in FFProbeErrors
           THEN Return("FFMPEGError:verification_failed")
           ELSE Return(result)
    /\ UNCHANGED <<status, probe_data, config, mappings, file_path, output_file, env,
                   tree, outputs, files_to_process, idx, success_count, calls, attempted,
                   report, api_calls>>

\* process, lines 193-199: what the two except clauses re-raise.
Reraised(exception) ==
    IF exception = "CalledProcessError" THEN "FFMPEGError:ffmpeg_failed" ELSE exception

\* process, lines 176-179: status, then the call of get_stream_mappings.
ProcessEnter ==
    /\ At("process_176")
    /\ status' = "processing"
    /\ Call("gsm_130", "process_179")
    /\ UNCHANGED <<result, probe_data, config, mappings, file_path, output_file, env,
                   tree, outputs, files_to_process, idx, success_count, calls, attempted,
                   report, api_calls>>

\* process, lines 179-186: the mappings came back (or an exception did), the
\* command is built and ffmpeg is started.
ProcessRemuxStart ==
    /\ At("process_179")
    /\ IF result # "ok"
           THEN /\ status' = "failed"
                /\ Return(Reraised(result))
                /\ UNCHANGED calls
       ELSE IF "ffmpeg" \notin env.tools
           THEN /\ status' = "failed"
                /\ Return(Reraised("FileNotFoundError"))
                /\ calls' = Append(calls, <<"ffmpeg", idx, "output">>)
       ELSE /\ Goto("process_186")
            /\ result' = "none"
            /\ calls' = Append(calls, <<"ffmpeg", idx, "output">>)
            /\ UNCHANGED status
    /\ UNCHANGED <<probe_data, config, mappings, file_path, output_file, env, tree,
                   outputs, files_to_process, idx, success_count, attempted, report,
                   api_calls>>

\* process, lines 186-189: ffmpeg ends; on exit 0 verification is called
\* when the configuration asks for it.
ProcessRemuxExit ==
    /\ At("process_186")
    /\ \E o \in RemuxOutcomes(outputs[output_file]) :
           /\ outputs' = [outputs EXCEPT ![output_file] = o.content]
           /\ IF o.exit # 0
                  THEN /\ status' = "failed"
                       /\ Return(Reraised("CalledProcessError"))
              ELSE IF config.verify_output
                  THEN /\ Call("verify_162", "process_189")
                       /\ UNCHANGED <<status, result>>
              ELSE /\ Goto("process_191")
                   /\ UNCHANGED <<status, result>>
    /\ UNCHANGED <<probe_data, config, mappings, file_path, output_file, env, tree,
                   files_to_process, idx, success_count, calls, attempted, report,
                   api_calls>>

\* process, line 189 and the except clauses: verify_output returned or raised.
ProcessVerified ==
    /\ At("process_189")
    /\ IF result = "ok"
           THEN /\ Goto("process_191")
                /\ result' = "none"
                /\ UNCHANGED status
           ELSE /\ status' = "failed"
                /\ Return(Reraised(result))
    /\ UNCHANGED <<probe_data, config, mappings, file_path, output_file, env, tree,
                   outputs, files_to_process, idx, success_count, calls, attempted,
                   report, api_calls>>

\* process, line 191.
ProcessComplete ==
    /\ At("process_191")
    /\ status' = "completed"
    /\ Return("ok")
    /\ UNCHANGED <<probe_data, config, mappings, file_path, output_file, env, tree,
                   outputs, files_to_process, idx, success_count, calls, attempted,
                   report, api_calls>>

(***************************************************************************)
(* validate.py                                                             *)
(***************************************************************************)
\* validate_dependencies: every failed check is logged through
\* log_error_and_return_false, whose value is dropped; only ffmpeg is run;
\* the function ends in "return True".
ValidateDependencies(tools) ==
    [logged |-> IF "ffmpeg" \in tools THEN "ffmpeg_available" ELSE "missing_ffmpeg",
     value |-> TRUE]

(***************************************************************************)
(* main(): the batch driver                                                *)
(***************************************************************************)
MediaFiles ==
    {[parent |-> "input", name |-> "a.mkv"],
     [parent |-> "season", name |-> "a.mkv"],
     [parent |-> "input", name |-> "b.MP4"]}

OtherFiles == {[parent |-> "input", name |-> "notes.txt"]}

OutputNames == {"a.mkv", "b.MP4"}

\* f.suffix.lower()
LowerSuffix(name) ==
    CASE name = "a.mkv" -> ".mkv"
      [] name = "b.MP4" -> ".mp4"
      [] name = "notes.txt" -> ".txt"

MediaSuffixes == {".mkv", ".mp4", ".avi", ".mov"}

\* What rglob("*") finds under the input directory: the tree and whatever
\* the output directory holds.
Walk(t, outs) ==
    t \cup {[parent |-> "processed", name |-> n] : n \in {m \in OutputNames : outs[m] # "absent"}}

\* The comprehension of lines 267-271, as a set.
Discoverable(t, outs) ==
    {f \in Walk(t, outs) : f.parent # "processed" /\ LowerSuffix(f.name) \in MediaSuffixes}

Orderings(S) ==
    {q \in [1..Cardinality(S) -> S] : \A i, j \in 1..Cardinality(S) : q[i] = q[j] => i = j}

NoReport == [reached |-> "unreached", outcome |-> "pending", status |-> "unset"]

\* Variant of lines 291-296 without the "except Exception" clause.
HandlerProcessorErrorsOnly(exception) ==
    IF exception \in FFProbeErrors \cup FFMPEGErrors THEN "failed" ELSE "uncaught"

\* The except clauses of the loop, lines 291-296.
Handler(exception) ==
    IF exception \in FFProbeErrors \cup FFMPEGErrors THEN "failed" ELSE "unexpected"

\* Variant of line 282 that never skips.
OutputExistsNever(content) == FALSE

\* Line 282.
OutputExists(content) == content # "absent"

\* Lines 235-239.
MainCheckInput ==
    /\ At("main_237")
    /\ IF env.input = "missing" THEN Goto("returned") ELSE Goto("main_241")
    /\ UNCHANGED <<result, status, probe_data, config, mappings, file_path, output_file,
                   env, tree, outputs, files_to_process, idx, success_count, calls,
                   attempted, report, api_calls>>

\* Lines 241-253: the pre-flight checks and the configuration.
MainValidate ==
    /\ At("main_241")
    /\ IF ~ValidateDependencies(env.tools).value THEN Goto("returned") ELSE Goto("main_256")
    /\ UNCHANGED <<result, status, probe_data, config, mappings, file_path, output_file,
                   env, tree, outputs, files_to_process, idx, success_count, calls,
                   attempted, report, api_calls>>

\* Lines 256-262: input_path / "processed" is created.  Under a regular file
\* mkdir raises NotADirectoryError, which the except clause does not name.
MainMakeOutputDir ==
    /\ At("main_256")
    /\ IF env.input = "file" THEN Goto("crashed")
       ELSE IF env.mkdir_denied THEN Goto("returned")
       ELSE Goto("main_264")
    /\ UNCHANGED <<result, status, probe_data, config, mappings, file_path, output_file,
                   env, tree, outputs, files_to_process, idx, success_count, calls,
                   attempted, report, api_calls>>

\* Lines 264-275: the files to process, in the order the walk yields them.
MainDiscover ==
    /\ At("main_264")
    /\ \E q \in IF env.input = "file"
                    THEN {<<[parent |-> "input", name |-> "a.mkv"]>>}
                    ELSE Orderings(Discoverable(tree, outputs)) :
           /\ files_to_process' = q
           /\ report' = [i \in 1..Len(q) |-> NoReport]
    /\ success_count' = 0
    /\ idx' = 0
    /\ Goto("main_277")
    /\ UNCHANGED <<result, status, probe_data, config, mappings, file_path, output_file,
                   env, tree, outputs, calls, attempted, api_calls>>

\* Lines 277-287: the next file, the skip test, the new VideoProcessor and
\* the call of process; or the end of the loop.
MainNextFile ==
    /\ At("main_277")
    /\ IF idx >= Len(files_to_process)
           THEN /\ Goto("main_298")
                /\ UNCHANGED <<idx, output_file, attempted, report, status, probe_data>>
           ELSE LET name == files_to_process[idx + 1].name
                    seen == outputs[name]
                IN  /\ idx' = idx + 1
                    /\ output_file' = name
                    /\ attempted' = Append(attempted, idx + 1)
                    /\ IF OutputExists(seen)
                           THEN /\ report' = [report EXCEPT ![idx + 1] =
                                        [reached |-> seen, outcome |-> "skipped",
                                         status |-> "unset"]]
                                /\ UNCHANGED <<stack, status, probe_data>>
                           ELSE /\ report' = [report EXCEPT ![idx + 1] =
                                        [reached |-> seen, outcome |-> "pending",
                                         status |-> "initializing"]]
                                /\ status' = "initializing"
                                /\ probe_data' = None
                                /\ Call("process_176", "main_288")
    /\ UNCHANGED <<result, config, mappings, file_path, env, tree, outputs,
                   files_to_process, success_count, calls, api_calls>>

\* Lines 288-296: process returned, or one of the except clauses runs.
MainAfterProcess ==
    /\ At("main_288")
    /\ IF result = "ok"
           THEN /\ success_count' = success_count + 1
                /\ report' = [report EXCEPT ![idx].outcome = "ok", ![idx].status = status]
                /\ Goto("main_277")
           ELSE /\ report' = [report EXCEPT ![idx].outcome = Handler(result),
                                            ![idx].status = status]
                /\ IF Handler(result) = "uncaught" THEN Goto("crashed") ELSE Goto("main_277")
                /\ UNCHANGED success_count
    /\ result' = "none"
    /\ UNCHANGED <<status, probe_data, config, mappings, file_path, output_file, env,
                   tree, outputs, files_to_process, idx, calls, attempted, api_calls>>

\* Line 298: the summary.
MainSummary ==
    /\ At("main_298")
    /\ Goto("done")
    /\ UNCHANGED <<result, status, probe_data, config, mappings, file_path, output_file,
                   env, tree, outputs, files_to_process, idx, success_count, calls,
                   attempted, report, api_calls>>

DefaultConfigs ==
    [audio_langs : {<<"eng", "en", "kor", "jpn", "chi", "zho", "cmn">>},
     subtitle_langs : {<<"eng", "en">>},
     copy_streams : {TRUE}, verify_output : BOOLEAN]

Environments ==
    [input : {"missing", "file", "dir"}, mkdir_denied : BOOLEAN,
     tools : SUBSET {"ffmpeg", "ffprobe"}]

Trees == {t \cup OtherFiles : t \in {m \in SUBSET MediaFiles : Cardinality(m) <= MaxFiles}}

Init ==
    /\ stack = <<"main_237">>
    /\ result = "none"
    /\ status = "unset"
    /\ probe_data = None
    /\ config \in DefaultConfigs
    /\ mappings = <<>>
    /\ file_path = "None"
    /\ output_file = "a.mkv"
    /\ env \in Environments
    /\ tree \in Trees
    /\ outputs \in {[n \in OutputNames |-> IF n = "a.mkv" THEN c ELSE "absent"] :
                       c \in {"absent", "old"}}
    /\ files_to_process = <<>>
    /\ idx = 0
    /\ success_count = 0
    /\ calls = <<>>
    /\ attempted = <<>>
    /\ report = <<>>
    /\ api_calls = 0

Next ==
    \/ MainCheckInput
    \/ MainValidate
    \/ MainMakeOutputDir
    \/ MainDiscover
    \/ MainNextFile
    \/ MainAfterProcess
    \/ MainSummary
    \/ ProbeFileEnter
    \/ ProbeFileExit
    \/ GetStreamMappingsEnter
    \/ GetStreamMappingsProbed
    \/ GetStreamMappingsSelect
    \/ VerifyOutputEnter
    \/ VerifyOutputProbed
    \/ ProcessEnter
    \/ ProcessRemuxStart
    \/ ProcessRemuxExit
    \/ ProcessVerified
    \/ ProcessComplete

Spec == Init /\ [][Next]_vars

\* The driver is one sequential thread and every subprocess.run blocks until
\* the tool exits: a step that can be taken is taken.
FairSpec == Spec /\ WF_vars(Next)

(***************************************************************************)
(* get_stream_mappings alone: a processor that has probed its input, on    *)
(* every probe result and policy within the bounds.                        *)
(***************************************************************************)
SelectInit ==
    /\ stack = <<"gsm_130">>
    /\ result = "none"
    /\ status = "analyzing"
    /\ \E n \in 0..MaxStreams : \E f \in StreamShapes(n) : probe_data = Some(StreamsOf(f))
    /\ config \in Policies
    /\ mappings = <<>>
    /\ file_path = "None"
    /\ output_file = "a.mkv"
    /\ env = [input |-> "dir", mkdir_denied |-> FALSE, tools |-> {"ffmpeg", "ffprobe"}]
    /\ tree = {}
    /\ outputs = [n \in OutputNames |-> "absent"]
    /\ files_to_process = <<[parent |-> "input", name |-> "a.mkv"]>>
    /\ idx = 1
    /\ success_count = 0
    /\ calls = <<>>
    /\ attempted = <<>>
    /\ report = <<NoReport>>
    /\ api_calls = 0

SelectNext ==
    \/ GetStreamMappingsEnter
    \/ GetStreamMappingsSelect

SelectSpec == SelectInit /\ [][SelectNext]_vars

(***************************************************************************)
(* One VideoProcessor driven by a caller that invokes its operations in    *)
(* any order, each after the previous one has returned or raised.          *)
(***************************************************************************)
ApiEnter(entry) ==
    /\ At("api_idle")
    /\ api_calls < MaxCalls
    /\ api_calls' = api_calls + 1
    /\ result' = "none"
    /\ Call(entry, "api_idle")

\* probe_file() and probe_file(output_file)
ApiProbeFile ==
    /\ ApiEnter("probe_104")
    /\ file_path' \in {"None", "output"}
    /\ UNCHANGED <<status, probe_data, config, mappings, output_file, env, tree, outputs,
                   files_to_process, idx, success_count, calls, attempted, report>>

ApiGetStreamMappings ==
    /\ ApiEnter("gsm_130")
    /\ UNCHANGED <<status, probe_data, config, mappings, file_path, output_file, env,
                   tree, outputs, files_to_process, idx, success_count, calls, attempted,
                   report>>

ApiVerifyOutput ==
    /\ ApiEnter("verify_162")
    /\ UNCHANGED <<status, probe_data, config, mappings, file_path, output_file, env,
                   tree, outputs, files_to_process, idx, success_count, calls, attempted,
                   report>>

ApiProcess ==
    /\ ApiEnter("process_176")
    /\ UNCHANGED <<status, probe_data, config, mappings, file_path, output_file, env,
                   tree, outputs, files_to_process, idx, success_count, calls, attempted,
                   report>>

\* VideoProcessor.__init__, lines 95-100, on one input file.
ApiInit ==
    /\ stack = <<"api_idle">>
    /\ result = "none"
    /\ status = "initializing"
    /\ probe_data = None
    /\ config \in DefaultConfigs
    /\ mappings = <<>>
    /\ file_path = "None"
    /\ output_file = "a.mkv"
    /\ env \in [input : {"dir"}, mkdir_denied : {FALSE}, tools : SUBSET {"ffmpeg", "ffprobe"}]
    /\ tree = {}
    /\ outputs = [n \in OutputNames |-> "absent"]
    /\ files_to_process = <<[parent |-> "input", name |-> "a.mkv"]>>
    /\ idx = 1
    /\ success_count = 0
    /\ calls = <<>>
    /\ attempted = <<>>
    /\ report = <<NoReport>>
    /\ api_calls = 0

ApiNext ==
    \/ ApiProbeFile
    \/ ApiGetStreamMappings
    \/ ApiVerifyOutput
    \/ ApiProcess
    \/ ProbeFileEnter
    \/ ProbeFileExit
    \/ GetStreamMappingsEnter
    \/ GetStreamMappingsProbed
    \/ GetStreamMappingsSelect
    \/ VerifyOutputEnter
    \/ VerifyOutputProbed
    \/ ProcessEnter
    \/ ProcessRemuxStart
    \/ ProcessRemuxExit
    \/ ProcessVerified
    \/ ProcessComplete

ApiSpec == ApiInit /\ [][ApiNext]_vars

(***************************************************************************)
(* Properties of get_stream_mappings (checked under SelectSpec)            *)
(***************************************************************************)
Selected == stack = <<>>

VideoIndices(ss) == {ss[k].index : k \in {j \in DOMAIN ss : ss[j].codec_type = "video"}}

Lowest(S) == CHOOSE x \in S : \A y \in S : x <= y

\* The positions of a mapping list whose "-map" names one of the indices I.
MapPositions(m, I) ==
    {k \in 1..(Len(m) - 1) : m[k] = "-map" /\ \E i \in I : m[k + 1] = FormatSpecifier(i)}

Elements(list) == {list[k] : k \in DOMAIN list}

\* The language tag of a stream: the tag's value, or "und" without one.
TagOf(stream) ==
    IF stream.tags = {} THEN "und" ELSE (CHOOSE p \in stream.tags : TRUE)[2]

\* C1: when the probed list holds a video stream, get_stream_mappings returns,
\* its mapping names exactly one video stream, and that one is the video
\* stream of lowest index.
C1_FirstVideoSelected ==
    LET video == VideoIndices(probe_data.streams)
    IN  (Selected /\ video # {}) =>
            /\ result = "ok"
            /\ Cardinality(MapPositions(mappings, video)) = 1
            /\ MappedIndices(mappings) \cap video = {Lowest(video)}

\* C1 witness: a returned mapping for a list with two or more video streams
\* whose first stream is not the video.
C1_Witness ==
    /\ Selected
    /\ result = "ok"
    /\ Cardinality(VideoIndices(probe_data.streams)) >= 2
    /\ probe_data.streams[1].codec_type # "video"

\* C2: in a returned mapping an audio stream is present iff its tag (absent
\* read as "und") is literally one of the audio languages, a subtitle stream
\* iff its tag is literally one of the subtitle languages, and a stream of
\* any other non-video kind is never present.
C2_LanguageMembership ==
    (Selected /\ result = "ok") =>
        \A k \in DOMAIN probe_data.streams :
            LET stream == probe_data.streams[k]
                mapped == stream.index \in MappedIndices(mappings)
            IN  /\ stream.codec_type = "audio" =>
                       (mapped <=> TagOf(stream) \in Elements(config.audio_langs))
                /\ stream.codec_type = "subtitle" =>
                       (mapped <=> TagOf(stream) \in Elements(config.subtitle_langs))
                /\ stream.codec_type \notin {"video", "audio", "subtitle"} => ~mapped

\* C2 witness: a returned mapping that keeps an untagged audio stream (the
\* policy lists "und") and drops an audio stream tagged "eng" (the policy
\* lists "ENG").
C2_Witness ==
    /\ Selected
    /\ result = "ok"
    /\ \E k \in DOMAIN probe_data.streams :
           /\ probe_data.streams[k].codec_type = "audio"
           /\ probe_data.streams[k].tags = {}
           /\ probe_data.streams[k].index \in MappedIndices(mappings)
    /\ \E k \in DOMAIN probe_data.streams :
           /\ probe_data.streams[k].codec_type = "audio"
           /\ probe_data.streams[k].tags = {<<"language", "eng">>}
           /\ probe_data.streams[k].index \notin MappedIndices(mappings)

\* C3: without a video stream get_stream_mappings raises the video-missing
\* error, whether or not audio or subtitle streams match, and never the
\* no-matching-streams error.
C3_NoVideoError ==
    (Selected /\ VideoIndices(probe_data.streams) = {}) =>
        result = "FFProbeError:no_video_stream"

\* C3 witness: the call has ended on a non-empty list with no video stream
\* and no stream that matches the policy.
C3_Witness ==
    /\ Selected
    /\ probe_data.streams # <<>>
    /\ VideoIndices(probe_data.streams) = {}
    /\ \A k \in DOMAIN probe_data.streams :
           /\ ~TakesAudio(probe_data.streams[k], config)
           /\ ~TakesSubtitle(probe_data.streams[k], config)

(***************************************************************************)
(* Properties of the batch run (checked under Spec and FairSpec)           *)
(***************************************************************************)
CallsFor(i) == {k \in DOMAIN calls : calls[k][2] = i}

\* C4: with verification enabled, a run of process() that ends completed has
\* probed the output path once and left an output that exists, is not empty
\* and can be probed.
C4_VerifiedOutputProbed ==
    (config.verify_output /\ status = "completed") =>
        /\ outputs[output_file] \notin {"absent", "empty", "corrupt"}
        /\ Cardinality({k \in CallsFor(idx) : calls[k] = <<"ffprobe", idx, "output">>}) = 1

\* C5: when ffprobe or ffmpeg is not on the search path, no VideoProcessor
\* is created and no probe or remux is invoked.
C5_MissingToolStopsBatch ==
    env.tools # {"ffmpeg", "ffprobe"} => status = "unset" /\ calls = <<>>

InLoop == stack # <<>> /\ stack[Len(stack)] \in {"main_277", "main_288"}

Successes == {i \in DOMAIN report : report[i].status = "completed"}

\* C6: once the files are discovered the loop reaches them one by one in
\* list order, each once; no outcome of a file ends the run; the run gets to
\* the summary with every file reached, and success_count is the number of
\* files whose process() ran to completion.
C6_BatchIsolation ==
    /\ [](/\ attempted = [i \in 1..idx |-> i]
          /\ (At("crashed") => attempted = <<>>)
          /\ (At("done") =>
                 /\ idx = Len(files_to_process)
                 /\ \A i \in DOMAIN report : report[i].outcome # "pending"
                 /\ success_count = Cardinality(Successes)))
    /\ (InLoop ~> At("done"))

\* C6 witness: the summary is reached after a failed file followed by a
\* successful one.
C6_Witness ==
    /\ At("done")
    /\ Len(files_to_process) >= 2
    /\ report[1].outcome \in {"failed", "unexpected"}
    /\ report[2].outcome = "ok"

\* C7: a file whose output path exists when the loop reaches it gets no probe
\* and no remux, its output path keeps the content seen then, and it is
\* logged neither as a failure nor as a success.
C7_SkipExisting ==
    \A i \in DOMAIN report :
        report[i].reached \notin {"unreached", "absent"} =>
            /\ CallsFor(i) = {}
            /\ outputs[files_to_process[i].name] = report[i].reached
            /\ report[i].outcome = "skipped"
            /\ i \notin Successes

\* C7 witness: the run ends having skipped one file and processed another.
C7_Witness ==
    /\ At("done")
    /\ \E i \in DOMAIN report : report[i].reached \notin {"unreached", "absent"}
    /\ \E i \in DOMAIN report : report[i].outcome = "ok"

Ended == At("returned") \/ At("crashed") \/ At("done")

\* C8: a run on a single existing media file ends at the summary, having
\* attempted exactly that file.
C8_SingleFileAttempted ==
    (env.input = "file" /\ Ended) => At("done") /\ attempted = <<1>>

Rank(s) ==
    CASE s = "initializing" -> 0
      [] s = "analyzing" -> 1
      [] s = "processing" -> 2
      [] s = "verifying" -> 3
      [] s = "completed" -> 4
      [] OTHER -> 5

\* C9: within one process() call the status only moves forward along
\* initializing, analyzing, processing, verifying, completed, or jumps to
\* failed, and it is processing while ffmpeg runs.
C9_StatusForward ==
    [][/\ (status' # status /\ status' # "initializing") =>
              (status' = "failed" \/ Rank(status') > Rank(status))
       /\ (At("process_186")' => status' = "processing")]_vars

(***************************************************************************)
(* Property of the VideoProcessor under any caller (checked under ApiSpec) *)
(***************************************************************************)
\* C10: once the status is failed or completed, no operation changes it.
C10_TerminalAbsorbing ==
    [][(status \in {"failed", "completed"} => status' = status)]_vars

====
